---- MODULE Spec2Model ----
(***************************************************************************)
(* Model of the astromodels model parser (model_parser.py), of the         *)
(* PointSource constructor (sources/point_source.py) and of the            *)
(* SpectralComponent constructor (spectral_component.py).                  *)
(*                                                                         *)
(* Strings are sequences of tokens.  A token is either a single character  *)
(* that the code's string operations look at (" ", "(", ")", ".") or a     *)
(* word made of other characters, so that find / findall / split work on   *)
(* tokens exactly as they work on characters.                              *)
(***************************************************************************)
EXTENDS Integers, Sequences, FiniteSets, TLC

\* ------------------------------------------------------------------ bounds
MaxEntries == 2      \* top-level entries of a document
MaxDepth == 2        \* nesting depth of 'law' sections in a shape definition

\* ------------------------------------------------------- program constants
POINT_SOURCE == <<"point", " ", "source">>
EXTENDED_SOURCE == <<"extended", " ", "source">>
IndependentVariableTag == <<"(", "IndependentVariable", ")">>

None == <<"None">>
NoName == <<>>

\* ------------------------------------------------------- string operations
Paren(s) == <<"(">> \o s \o <<")">>

\* pat occurs in s at (1-based) position i
IsAt(s, pat, i) ==
    /\ i >= 1
    /\ i + Len(pat) - 1 <= Len(s)
    /\ \A k \in 1..Len(pat) : s[i + k - 1] = pat[k]

\* str.find: 0-based index of the first occurrence, -1 when there is none
Find(s, pat) ==
    IF \E i \in 1..Len(s) : IsAt(s, pat, i)
    THEN (CHOOSE i \in 1..Len(s) :
             IsAt(s, pat, i) /\ \A j \in 1..(i - 1) : ~IsAt(s, pat, j)) - 1
    ELSE -1

\* positions matched by re.findall('\((point source|extended source)\)', s);
\* matches start with "(" and hold no other parenthesis, so none overlap
TypeMatches(s) ==
    {i \in 1..Len(s) : IsAt(s, Paren(POINT_SOURCE), i) \/ IsAt(s, Paren(EXTENDED_SOURCE), i)}

Max(S) == CHOOSE x \in S : \A y \in S : y <= x
Min(S) == CHOOSE x \in S : \A y \in S : x <= y

\* re.findall(...)[-1]: the group of the last match, None for IndexError
FindSourceType(s) ==
    IF TypeMatches(s) = {} THEN None
    ELSE IF IsAt(s, Paren(POINT_SOURCE), Max(TypeMatches(s)))
         THEN POINT_SOURCE ELSE EXTENDED_SOURCE

\* str.split()[0]: the first whitespace-delimited word
SplitFirst(s) ==
    LET nonws == {i \in 1..Len(s) : s[i] # " "}
    IN  IF nonws = {} THEN <<>>
        ELSE LET start == Min(nonws)
                 stops == {j \in start..Len(s) : s[j] = " "}
                 stop  == IF stops = {} THEN Len(s) + 1 ELSE Min(stops)
             IN  SubSeq(s, start, stop - 1)

\* s.split("(")[0].replace(" ", "")
IsNotSpace(t) == t # " "
VarNameOf(s) ==
    LET opens == {i \in 1..Len(s) : s[i] = "("}
        head  == IF opens = {} THEN s ELSE SubSeq(s, 1, Min(opens) - 1)
    IN  SelectSeq(head, IsNotSpace)

\* ".".join(parts)
RECURSIVE Join(_)
Join(parts) ==
    IF Len(parts) = 0 THEN <<>>
    ELSE IF Len(parts) = 1 THEN parts[1]
    ELSE parts[1] \o <<".">> \o Join(Tail(parts))

\* path.split("."), as the tree lookup does it
RECURSIVE SplitDots(_)
SplitDots(s) ==
    LET dots == {i \in 1..Len(s) : s[i] = "."}
    IN  IF dots = {} THEN <<s>>
        ELSE <<SubSeq(s, 1, Min(dots) - 1)>> \o SplitDots(SubSeq(s, Min(dots) + 1, Len(s)))

\* ------------------------------------------------------------------ errors
NoError == [type |-> "none", what |-> "", source |-> NoName, component |-> "",
            function |-> "", parameter |-> "", detail |-> NoName]

ModelSyntaxError(what, src, comp, fn, par, detail) ==
    [type |-> "ModelSyntaxError", what |-> what, source |-> src, component |-> comp,
     function |-> fn, parameter |-> par, detail |-> detail]

PythonError(type, what) ==
    [type |-> type, what |-> what, source |-> NoName, component |-> "",
     function |-> "", parameter |-> "", detail |-> NoName]

\* ---------------------------------------------------------- optional values
Nothing == <<>>
Some(x) == <<x>>

\* a value of the document: a number, or a string of tokens
Num(n) == [isString |-> FALSE, num |-> n, str |-> <<>>]
Str(s) == [isString |-> TRUE, num |-> 0, str |-> s]

\* str(value)
StrOf(v) == IF v.isString THEN v.str ELSE <<ToString(v.num)>>

\* --------------------------------------------------------------- parameters
\* parameter.Parameter(name, value): a fresh parameter without bounds, free
Parameter(name, value) ==
    [kind |-> "Parameter", name |-> name, value |-> value, min_value |-> Nothing,
     max_value |-> Nothing, delta |-> Nothing, free |-> TRUE, unit |-> ""]

set_bounds(p, lo, hi) == [p EXCEPT !.min_value = Some(lo), !.max_value = Some(hi)]
set_fix(p, x) == [p EXCEPT !.free = ~x]
set_free(p, x) == [p EXCEPT !.free = x]

\* ------------------------------------------------------------ sky direction
CoordinateKeys == {"ra", "dec", "l", "b"}
CoordinateValues == {10, 20}
Equinoxes == {"J2000"}

\* a position section: the coordinate keys present (each {value: number}) and
\* the optional equinox
PositionDefinitions ==
    UNION {[K -> [value : CoordinateValues]] : K \in SUBSET CoordinateKeys}

PositionSections ==
    [coords : PositionDefinitions, equinox : {Nothing} \cup {Some(e) : e \in Equinoxes}]

NoSkyDirection ==
    [kind |-> "none", name |-> "", order |-> <<>>, coordinates |-> [c \in {} |-> 0],
     equinox |-> Nothing]

\* sky_direction.SkyDirection(**coordinates)
SkyDirection(order, coordinates, equinox) ==
    [kind |-> "SkyDirection", name |-> "", order |-> order,
     coordinates |-> coordinates, equinox |-> equinox]

\* SkyDirection.fix(): every coordinate is fixed
SkyFix(sky) ==
    [sky EXCEPT !.coordinates = [c \in DOMAIN sky.coordinates |-> set_fix(sky.coordinates[c], TRUE)]]

SkyFail(e) == [ok |-> FALSE, err |-> e, sky |-> NoSkyDirection]

\* the two parameters of a coordinate pair: Parameter(name, value), set_bounds, fix = True
LonLat(d, lon, lat) ==
    [c \in {lon, lat} |->
        IF c = lon
        THEN set_fix(set_bounds(Parameter(lon, Num(d.coords[lon].value)), 0, 360), TRUE)
        ELSE set_fix(set_bounds(Parameter(lat, Num(d.coords[lat].value)), -90, 90), TRUE)]

\* _parse_sky_direction without its 'l' and 'b' branch
ParseSkyDirectionEquatorialOnly(source_name, d) ==
    IF "ra" \in DOMAIN d.coords /\ "dec" \in DOMAIN d.coords
    THEN [ok |-> TRUE, err |-> NoError,
          sky |-> SkyDirection(<<"ra", "dec">>, LonLat(d, "ra", "dec"), d.equinox)]
    ELSE SkyFail(ModelSyntaxError("invalid coordinate pair", source_name, "", "", "", NoName))

\* SourceParser._parse_sky_direction
ParseSkyDirection(source_name, d) ==
    IF "ra" \in DOMAIN d.coords /\ "dec" \in DOMAIN d.coords
    THEN [ok |-> TRUE, err |-> NoError,
          sky |-> SkyDirection(<<"ra", "dec">>, LonLat(d, "ra", "dec"), d.equinox)]
    ELSE IF "l" \in DOMAIN d.coords /\ "b" \in DOMAIN d.coords
    THEN [ok |-> TRUE, err |-> NoError,
          sky |-> SkyDirection(<<"l", "b">>, LonLat(d, "l", "b"), d.equinox)]
    ELSE SkyFail(ModelSyntaxError("invalid coordinate pair", source_name, "", "", "", NoName))

\* --------------------------------------------------------- function catalog
\* function.get_function(name): the catalog's functions and the parameters
\* each declares, in the catalog's order
KnownFunctions == {"powerlaw", "line"}

CatalogParameters(function_name) ==
    IF function_name = "powerlaw" THEN <<"K", "index">> ELSE <<"a", "b">>

\* the catalog's default for a parameter
CatalogDefault(pname) ==
    [kind |-> "Parameter", name |-> pname, value |-> Num(1), min_value |-> Some(0),
     max_value |-> Some(10), delta |-> Some(1), free |-> TRUE, unit |-> ""]

Range(seq) == {seq[i] : i \in 1..Len(seq)}

get_function(function_name) ==
    [kind |-> "Function", name |-> function_name,
     order |-> CatalogParameters(function_name),
     parameters |-> [p \in Range(CatalogParameters(function_name)) |-> CatalogDefault(p)]]

NoFunction ==
    [kind |-> "none", name |-> "", order |-> <<>>, parameters |-> [p \in {} |-> 0]]

\* ------------------------------------------------------------ shape parsing
\* re.findall('f\((.+)\)', s): the groups of the matches.  A match starts at
\* the leftmost "f(" that has a ")" at least one token further on and, the
\* group being greedy, ends at the last ")" of the string: at most one match.
LinkStarts(s) ==
    {i \in 1..Len(s) : /\ IsAt(s, <<"f", "(">>, i)
                       /\ \E j \in (i + 3)..Len(s) : s[j] = ")"}

LinkMatches(s) ==
    IF LinkStarts(s) = {} THEN <<>>
    ELSE LET i == Min(LinkStarts(s))
             j == Max({k \in (i + 3)..Len(s) : s[k] = ")"})
         IN  <<SubSeq(s, i + 2, j - 1)>>

ShapeFail(e, links) == [ok |-> FALSE, err |-> e, instance |-> NoFunction, links |-> links]

\* the optional keys of a parameter's definition, applied in the code's order
ApplyOptional(p, d) ==
    LET p1 == IF "min" \in d.keys THEN [p EXCEPT !.min_value = Some(d.min)] ELSE p
        p2 == IF "max" \in d.keys THEN [p1 EXCEPT !.max_value = Some(d.max)] ELSE p1
        p3 == IF "delta" \in d.keys THEN [p2 EXCEPT !.delta = Some(d.delta)] ELSE p2
        p4 == IF "fix" \in d.keys THEN set_fix(p3, d.fix) ELSE p3
        p5 == IF "free" \in d.keys THEN set_free(p4, d.free) ELSE p4
        p6 == IF "unit" \in d.keys THEN [p5 EXCEPT !.unit = d.unit] ELSE p5
    IN  p6

\* the path of a link record
LinkPath(source_name, component_name, function_name, parameter_name) ==
    Join(<<source_name, <<"spectrum">>, <<component_name>>, <<function_name>>,
           <<parameter_name>>>>)

\* the check of 'value' left out
LacksValueUnchecked(this_definition) == FALSE

\* 'value' not in this_definition
LacksValue(this_definition) == "value" \notin this_definition.keys

RECURSIVE ParseShapeDefinition(_, _, _, _, _)
RECURSIVE ParseParameters(_, _, _, _, _, _, _)
RECURSIVE AppendLink(_, _, _, _, _, _, _, _)

\* the linked parameter takes the value of the law's first parameter, and
\* no record is kept
AppendLinkAssigns(source_name, component_name, function_name, parameters_definition, i, function_instance, linked_variable, law) ==
    IF ~law.ok THEN law
    ELSE ParseParameters(source_name, component_name, function_name,
             parameters_definition, i + 1,
             [function_instance EXCEPT !.parameters[function_instance.order[i]].value =
                  law.instance.parameters[law.instance.order[1]].value],
             law.links)

\* _parse_shape_definition once the law of a linked parameter is parsed: the
\* link record is appended and the loop goes on with the next parameter
AppendLink(source_name, component_name, function_name, parameters_definition, i, function_instance, linked_variable, law) ==
    IF ~law.ok THEN law
    ELSE ParseParameters(source_name, component_name, function_name,
             parameters_definition, i + 1, function_instance,
             Append(law.links,
                    [parameter_path |-> LinkPath(source_name, component_name, function_name,
                                                 function_instance.order[i]),
                     law |-> law.instance,
                     variable |-> linked_variable]))

\* the loop of _parse_shape_definition from the i-th catalog parameter on;
\* links is self._links, which the recursive calls share
ParseParameters(source_name, component_name, function_name, parameters_definition, i, function_instance, links) ==
    IF i > Len(function_instance.order)
    THEN [ok |-> TRUE, err |-> NoError, instance |-> function_instance, links |-> links]
    ELSE
    LET parameter_name == function_instance.order[i] IN
    IF parameter_name \notin DOMAIN parameters_definition
    THEN ShapeFail(ModelSyntaxError("lacks definition", source_name, component_name,
                                    function_name, parameter_name, NoName), links)
    ELSE
    LET this_definition == parameters_definition[parameter_name]
        updated == [function_instance EXCEPT !.parameters[parameter_name] =
                        ApplyOptional(function_instance.parameters[parameter_name],
                                      this_definition)]
    IN
    IF LacksValue(this_definition)
    THEN ShapeFail(ModelSyntaxError("lacks value", source_name, component_name,
                                    function_name, parameter_name, NoName), links)
    ELSE
    LET matches == LinkMatches(StrOf(this_definition.value)) IN
    IF matches # <<>>
    THEN
        IF "law" \notin this_definition.keys
        THEN ShapeFail(ModelSyntaxError("lacks law", source_name, component_name,
                                        function_name, parameter_name, matches[1]), links)
        ELSE IF this_definition.law = <<>>
        THEN ShapeFail(PythonError("IndexError", "law has no key"), links)
        ELSE
        AppendLink(source_name, component_name, function_name, parameters_definition,
                   i, updated, matches[1],
                   ParseShapeDefinition(source_name, component_name,
                                        this_definition.law[1].name,
                                        this_definition.law[1].parameters, links))
    ELSE ParseParameters(source_name, component_name, function_name,
             parameters_definition, i + 1,
             [updated EXCEPT !.parameters[parameter_name].value = this_definition.value],
             links)

\* SourceParser._parse_shape_definition
ParseShapeDefinition(source_name, component_name, function_name, parameters_definition, links) ==
    IF function_name \notin KnownFunctions
    THEN ShapeFail(ModelSyntaxError("unknown function", source_name, component_name,
                                    function_name, "", NoName), links)
    ELSE ParseParameters(source_name, component_name, function_name,
                         parameters_definition, 1, get_function(function_name), links)

\* ------------------------------------------------- parameter definitions
\* A parameter's definition in the document: the keys present and their
\* values.  law is the ordered mapping under 'law': a sequence of
\* [name, parameters] entries, of which the code reads the first.
Definition(keys, value, law) ==
    [keys |-> keys, min |-> 2, max |-> 8, delta |-> 3, fix |-> TRUE, free |-> TRUE,
     unit |-> "keV", value |-> value, law |-> law]

OptionalKeySets == {{}, {"min", "max"}, {"delta", "fix", "free", "unit"}}

LinkTo(variable) == <<"f", "(">> \o variable \o <<")">>

PlainDefinitions ==
    {Definition(K, Num(5), <<>>) : K \in OptionalKeySets}
    \cup {Definition(K \cup {"value"}, Num(5), <<>>) : K \in OptionalKeySets}
    \cup {Definition({"value"}, Str(<<"f", "(", ")">>), <<>>),
          Definition({"value"}, Str(LinkTo(<<"v">>)), <<>>)}

Optional(S) == {<<>>} \cup {<<d>> : d \in S}

\* the user's mapping for a function: the i-th catalog parameter has the
\* definition choices[i][1], or no entry when choices[i] is empty
ParametersDefinition(function_name, choices) ==
    LET names == CatalogParameters(function_name)
        at(p) == CHOOSE i \in 1..Len(names) : names[i] = p
    IN  [p \in {names[i] : i \in {k \in 1..Len(names) : choices[k] # <<>>}} |->
            choices[at(p)][1]]

NoParameters == [p \in {} |-> 0]

RECURSIVE ParameterDefinitions(_)
RECURSIVE Laws(_)

\* the 'law' sections of nesting depth at most d
Laws(d) ==
    {<<>>, <<[name |-> "nofunction", parameters |-> NoParameters]>>}
    \cup {<<[name |-> fn, parameters |-> ParametersDefinition(fn, <<c1, c2>>)]>> :
            fn \in KnownFunctions,
            c1 \in Optional(ParameterDefinitions(d)),
            c2 \in Optional({Definition({"value"}, Num(3), <<>>)})}

\* the parameter definitions whose laws nest at most d deep
ParameterDefinitions(d) ==
    IF d = 0 THEN PlainDefinitions
    ELSE PlainDefinitions
         \cup {Definition({"value", "law"}, Str(LinkTo(<<"v">>)), law) : law \in Laws(d - 1)}

SimpleLaw ==
    <<[name |-> "line",
       parameters |-> ParametersDefinition("line",
           <<<<Definition({"value"}, Num(3), <<>>)>>, <<Definition({"value"}, Num(4), <<>>)>>>>)]>>

\* values that are neither a number nor exactly f(<path>)
OddDefinitions ==
    {Definition({"value", "law"}, Str(<<"2", "*">> \o LinkTo(<<"w">>)), SimpleLaw),
     Definition({"value", "law"}, Str(LinkTo(<<"v">>) \o <<"+">> \o LinkTo(<<"w">>)), SimpleLaw),
     Definition({"value", "law"}, Num(5), SimpleLaw),
     Definition({"value", "law"}, Str(LinkTo(<<"a", ".", "spectrum", ".", "main", ".",
                                               "powerlaw", ".", "index">>)), SimpleLaw)}

ShapeFunctionNames == KnownFunctions \cup {"shape"}

\* the arguments of _parse_shape_definition
ShapeInputs ==
    {[source_name |-> <<"a">>, component_name |-> "main", function_name |-> fn,
      parameters_definition |-> ParametersDefinition(fn, <<c1, c2>>)] :
        fn \in KnownFunctions,
        c1 \in Optional(ParameterDefinitions(MaxDepth) \cup OddDefinitions),
        c2 \in Optional(PlainDefinitions
                        \cup {Definition({"value", "law"}, Str(LinkTo(<<"w">>)), SimpleLaw)})}
    \cup {[source_name |-> <<"a">>, component_name |-> "main", function_name |-> "shape",
           parameters_definition |-> NoParameters]}

\* ------------------------------------------------------ spectral component
\* polarization.Polarization(): the default polarization
Polarization(description) ==
    [kind |-> "Polarization", name |-> "polarization", description |-> description]

NoComponent ==
    [kind |-> "none", name |-> "", shape |-> NoFunction, polarization |-> Polarization("none"),
     children |-> <<>>]

\* SpectralComponent.__init__(name, shape, polarization): polarization is
\* Nothing for None; shape and polarization become the children
SpectralComponent(name, shape, polarization) ==
    LET pol == IF polarization = Nothing THEN Polarization("none") ELSE polarization[1]
    IN  [kind |-> "SpectralComponent", name |-> name, shape |-> shape, polarization |-> pol,
         children |-> <<shape, pol>>]

ComponentFail(e, links) == [ok |-> FALSE, err |-> e, component |-> NoComponent, links |-> links]

\* _parse_spectral_component once the shape is parsed: the default polarization
\* and the component
ComponentOf(component_name, shape) ==
    IF ~shape.ok THEN ComponentFail(shape.err, shape.links)
    ELSE [ok |-> TRUE, err |-> NoError,
          component |-> SpectralComponent(component_name, shape.instance,
                                          Some(Polarization("none"))),
          links |-> shape.links]

\* SourceParser._parse_spectral_component; component_definition is the ordered
\* mapping of the component: a sequence of [name, parameters, polarization]
ParseSpectralComponent(source_name, component_name, component_definition, links) ==
    IF component_definition = <<>>
    THEN ComponentFail(PythonError("IndexError", "component has no key"), links)
    ELSE
    LET function_name == component_definition[1].name
        parameters_definition == component_definition[1].parameters
    IN  ComponentOf(component_name,
                    ParseShapeDefinition(source_name, component_name, function_name,
                                         parameters_definition, links))

\* ----------------------------------------------------------- point source
NoSource ==
    [kind |-> "none", name |-> NoName, source_type |-> <<>>, sky_position |-> NoSkyDirection,
     components |-> <<>>, children |-> <<>>]

\* the integer 0 that _parse_extended_source returns
Zero ==
    [kind |-> "int", name |-> NoName, source_type |-> <<>>, sky_position |-> NoSkyDirection,
     components |-> <<>>, children |-> <<>>]

SourceFail(e) == [ok |-> FALSE, err |-> e, source |-> NoSource]

AssertionError(what) == PythonError("AssertionError", what)

Given(x) == x # Nothing

\* a ^ b on booleans
Xor(a, b) == a # b

\* SkyDirection(ra=ra, dec=dec) or SkyDirection(l=l, b=b) from two numbers
SkyDirectionOf(lon, lat, x, y) ==
    SkyDirection(<<lon, lat>>,
                 [c \in {lon, lat} |-> IF c = lon THEN Parameter(lon, Num(x))
                                                  ELSE Parameter(lat, Num(y))],
                 Nothing)

\* the components added to the source itself, without a 'spectrum' node
SourceChildrenFlat(position, the_components) == <<position>> \o the_components

\* PointSource.__init__, the children of the source: the position, and a node
\* called 'spectrum' that holds the components
SourceChildren(position, the_components) ==
    <<position, [kind |-> "Node", name |-> "spectrum", children |-> the_components]>>

\* PointSource.__init__.  ra, dec, l, b are Nothing or Some([numeric, value]);
\* spectral_shape, components and sky_position are Nothing or Some(object).
PointSourceInit(source_name, ra, dec, spectral_shape, l, b, components, sky_position) ==
    IF ~Xor(Xor(Given(ra) /\ Given(dec), Given(l) /\ Given(b)), Given(sky_position))
    THEN SourceFail(AssertionError("one and only one specification for the position"))
    ELSE IF ~Given(sky_position) /\ Given(ra) /\ Given(dec)
            /\ ~(ra[1].numeric /\ dec[1].numeric)
    THEN SourceFail(AssertionError("RA and Dec must be numbers"))
    ELSE
    LET gathered ==
            IF Given(sky_position) THEN sky_position[1]
            ELSE IF Given(ra) /\ Given(dec)
                 THEN SkyDirectionOf("ra", "dec", ra[1].value, dec[1].value)
                 ELSE SkyDirectionOf("l", "b", l[1].value, b[1].value)
        fixed == SkyFix(gathered)
    IN
    IF ~Xor(Given(spectral_shape), Given(components))
    THEN SourceFail(AssertionError("either a single component, or a list of components"))
    ELSE
    LET the_components ==
            IF Given(spectral_shape)
            THEN <<SpectralComponent("main", spectral_shape[1], Nothing)>>
            ELSE components[1]
        position == [fixed EXCEPT !.name = "position"]
    IN  [ok |-> TRUE, err |-> NoError,
         source |-> [kind |-> "PointSource", name |-> source_name,
                     source_type |-> POINT_SOURCE, sky_position |-> position,
                     components |-> the_components,
                     children |-> SourceChildren(position, the_components)]]

\* ------------------------------------------------------------ source parser
RECURSIVE ParseComponents(_, _, _, _, _)
RECURSIVE AppendComponent(_, _, _, _, _)

\* components.append(this_component), and the loop goes on
AppendComponent(source_name, spectrum, i, components, this) ==
    IF ~this.ok
    THEN [ok |-> FALSE, err |-> this.err, components |-> <<>>, links |-> this.links]
    ELSE ParseComponents(source_name, spectrum, i + 1,
                         Append(components, this.component), this.links)

\* the loop of _parse_point_source over the 'spectrum' mapping, a sequence of
\* [name, definition]
ParseComponents(source_name, spectrum, i, components, links) ==
    IF i > Len(spectrum)
    THEN [ok |-> TRUE, err |-> NoError, components |-> components, links |-> links]
    ELSE AppendComponent(source_name, spectrum, i, components,
                         ParseSpectralComponent(source_name, spectrum[i].name,
                                                spectrum[i].definition, links))

ParserFail(e) == [ok |-> FALSE, err |-> e, source |-> NoSource, links |-> <<>>]

\* the source and the links of the parser that built it
WithLinks(this_point_source, parser_links) ==
    [ok |-> this_point_source.ok, err |-> this_point_source.err,
     source |-> this_point_source.source,
     links |-> IF this_point_source.ok THEN parser_links ELSE <<>>]

\* _parse_point_source once the components are parsed:
\* PointSource(name, sky_position=this_sky_direction, components=components)
NewPointSource(source_name, sky, parsed) ==
    IF ~parsed.ok THEN ParserFail(parsed.err)
    ELSE WithLinks(PointSourceInit(source_name, Nothing, Nothing, Nothing, Nothing, Nothing,
                                   Some(parsed.components), Some(sky)),
                   parsed.links)

\* _parse_point_source looking for 'spectrum' before it looks for 'position'
ParsePointSourceSpectrumFirst(source_name, d) ==
    IF "spectrum" \notin d.keys
    THEN ParserFail(ModelSyntaxError("missing spectrum", source_name, "", "", "", NoName))
    ELSE IF "position" \notin d.keys
    THEN ParserFail(ModelSyntaxError("missing position", source_name, "", "", "", NoName))
    ELSE IF ~ParseSkyDirection(source_name, d.position).ok
    THEN ParserFail(ParseSkyDirection(source_name, d.position).err)
    ELSE NewPointSource(source_name, ParseSkyDirection(source_name, d.position).sky,
                        ParseComponents(source_name, d.spectrum, 1, <<>>, <<>>))

\* SourceParser._parse_point_source; d is [keys, position, spectrum]
ParsePointSource(source_name, d) ==
    IF "position" \notin d.keys
    THEN ParserFail(ModelSyntaxError("missing position", source_name, "", "", "", NoName))
    ELSE
    LET this_sky_direction == ParseSkyDirection(source_name, d.position) IN
    IF ~this_sky_direction.ok THEN ParserFail(this_sky_direction.err)
    ELSE IF "spectrum" \notin d.keys
    THEN ParserFail(ModelSyntaxError("missing spectrum", source_name, "", "", "", NoName))
    ELSE
    NewPointSource(source_name, this_sky_direction.sky,
                   ParseComponents(source_name, d.spectrum, 1, <<>>, <<>>))

\* SourceParser._parse_extended_source
ParseExtendedSource(source_name, d) ==
    [ok |-> TRUE, err |-> NoError, source |-> Zero, links |-> <<>>]

\* SourceParser.__init__ followed by get_source() and links
SourceParser(source_name, source_definition) ==
    LET source_type == FindSourceType(source_name) IN
    IF source_type = None
    THEN ParserFail(ModelSyntaxError("unknown source type", source_name, "", "", "", NoName))
    ELSE IF source_type = POINT_SOURCE
         THEN ParsePointSource(SplitFirst(source_name), source_definition)
         ELSE ParseExtendedSource(SplitFirst(source_name), source_definition)

\* ------------------------------------------------------------ model tree
\* parameter.IndependentVariable(name, **definition)
IndependentVariable(name) == [kind |-> "IndependentVariable", name |-> name]

NoModel == [kind |-> "none", children |-> <<>>]

\* the name a node is registered under; source and variable names are strings
\* of tokens, the other names are single words
NodeName(node) ==
    IF node.kind \in {"PointSource", "IndependentVariable"} THEN node.name ELSE <<node.name>>

\* the children of a node of the tree, in order
Children(node) ==
    IF node.kind \in {"Model", "PointSource", "Node", "SpectralComponent"} THEN node.children
    ELSE IF node.kind = "Function"
         THEN [i \in 1..Len(node.order) |-> node.parameters[node.order[i]]]
    ELSE IF node.kind = "SkyDirection"
         THEN [i \in 1..Len(node.order) |-> node.coordinates[node.order[i]]]
    ELSE <<>>

\* Node lookup by a sequence of names: Some(node), or Nothing when a segment
\* names no child
RECURSIVE GetChildFromPath(_, _)
GetChildFromPath(node, segments) ==
    IF segments = <<>> THEN Some(node)
    ELSE LET kids == Children(node)
             hits == {i \in 1..Len(kids) : NodeName(kids[i]) = segments[1]}
         IN  IF hits = {} THEN Nothing
             ELSE GetChildFromPath(kids[Min(hits)], Tail(segments))

\* model[path]
ModelGetItem(m, path) == GetChildFromPath(m, SplitDots(path))

\* ----------------------------------------------------------- documents
Lit(n) == <<Definition({"value"}, Num(n), <<>>)>>

Linked(variable, law) == <<Definition({"value", "law"}, Str(LinkTo(variable)), law)>>

Powerlaw(c1, c2) ==
    [name |-> "powerlaw", parameters |-> ParametersDefinition("powerlaw", <<c1, c2>>),
     polarization |-> ""]

PolarizationEntry ==
    [name |-> "polarization", parameters |-> NoParameters, polarization |-> "linear"]

\* the 'shape' key of the module docstring's example
ShapeEntry == [name |-> "shape", parameters |-> NoParameters, polarization |-> ""]

NestedLaw ==
    <<[name |-> "powerlaw",
       parameters |-> ParametersDefinition("powerlaw", <<Linked(<<"w">>, SimpleLaw), Lit(3)>>)]>>

\* a law of another function than the shape, with a linked parameter
NestedLineLaw ==
    <<[name |-> "line",
       parameters |-> ParametersDefinition("line", <<Linked(<<"w">>, SimpleLaw), Lit(3)>>)]>>

\* a linked parameter with bounds of its own
BoundedLinked(variable, law) ==
    <<Definition({"min", "max", "value", "law"}, Str(LinkTo(variable)), law)>>

PathOf(source, parameter) ==
    <<source, ".", "spectrum", ".", "main", ".", "powerlaw", ".", parameter>>

GoodComponents ==
    {<<Powerlaw(Lit(5), Lit(6))>>,
     <<Powerlaw(Lit(5), Lit(6)), PolarizationEntry>>,
     <<Powerlaw(Linked(<<"v">>, SimpleLaw), Lit(6))>>,
     <<Powerlaw(Lit(5), Linked(PathOf("a", "K"), SimpleLaw))>>,
     <<Powerlaw(Linked(PathOf("b", "index"), SimpleLaw), Lit(6))>>,
     <<Powerlaw(Linked(<<"v">>, NestedLaw), Lit(6))>>,
     <<Powerlaw(BoundedLinked(<<"v">>, NestedLaw), Lit(6))>>,
     <<Powerlaw(Linked(<<"v">>, NestedLineLaw), Lit(6))>>}

BadComponents ==
    {<<PolarizationEntry, Powerlaw(Lit(5), Lit(6))>>,
     <<ShapeEntry, PolarizationEntry>>,
     <<Powerlaw(Lit(5), <<>>)>>,
     <<Powerlaw(<<Definition({"value"}, Str(LinkTo(<<"v">>)), <<>>)>>, Lit(6))>>,
     <<>>}

Spectra ==
    {<<[name |-> "main", definition |-> c]>> : c \in GoodComponents \cup BadComponents}
    \cup {<<>>,
          <<[name |-> "main", definition |-> <<Powerlaw(Linked(<<"v">>, SimpleLaw), Lit(6))>>],
            [name |-> "other", definition |-> <<Powerlaw(Lit(5), Linked(<<"w">>, SimpleLaw)),
                                                 PolarizationEntry>>]>>}

RaDec == [coords |-> [c \in {"ra", "dec"} |-> [value |-> 10]], equinox |-> Nothing]
OnlyRa == [coords |-> [c \in {"ra"} |-> [value |-> 10]], equinox |-> Nothing]
PlainSpectrum == <<[name |-> "main", definition |-> <<Powerlaw(Lit(5), Lit(6))>>]>>

\* the definitions of a point source: [keys, position, spectrum]
SourceDefinitions ==
    {[keys |-> {"position", "spectrum"}, position |-> p, spectrum |-> s] :
        p \in {RaDec, OnlyRa}, s \in Spectra}
    \cup {[keys |-> {"position"}, position |-> p, spectrum |-> <<>>] : p \in {RaDec, OnlyRa}}
    \cup {[keys |-> {"spectrum"}, position |-> RaDec, spectrum |-> PlainSpectrum],
          [keys |-> {}, position |-> RaDec, spectrum |-> <<>>]}

FewDefinitions ==
    {[keys |-> {"position", "spectrum"}, position |-> RaDec, spectrum |-> PlainSpectrum],
     [keys |-> {"spectrum"}, position |-> RaDec, spectrum |-> PlainSpectrum]}

NoDefinition == [keys |-> {}, position |-> RaDec, spectrum |-> <<>>]

PointSourceKeys == {<<"a", " ">> \o Paren(POINT_SOURCE), <<"b", " ">> \o Paren(POINT_SOURCE)}

OddSourceKeys ==
    {<<"a">> \o Paren(POINT_SOURCE),
     <<"a", " ", "b", " ">> \o Paren(POINT_SOURCE),
     <<" ", "a", " ">> \o Paren(POINT_SOURCE),
     <<"a", " ">> \o Paren(EXTENDED_SOURCE) \o <<" ">> \o Paren(POINT_SOURCE)}

OtherKeys ==
    {<<"b", " ">> \o Paren(EXTENDED_SOURCE),
     <<"c", " ">> \o Paren(POINT_SOURCE) \o <<" ">> \o Paren(EXTENDED_SOURCE),
     <<"v">> \o IndependentVariableTag,
     <<"w", " ">> \o IndependentVariableTag,
     IndependentVariableTag,
     <<"a">>,
     <<"a", " ", "(", "galaxy", ")">>,
     <<"a", " ", "(", "point", ")">>}

\* the top-level entries a document is made of
DocumentEntries ==
    {[key |-> k, definition |-> d] : k \in PointSourceKeys, d \in SourceDefinitions}
    \cup {[key |-> k, definition |-> d] : k \in OddSourceKeys, d \in FewDefinitions}
    \cup {[key |-> k, definition |-> NoDefinition] : k \in OtherKeys}

\* ---------------------------------------------------------------- state
VARIABLES
    pc,                     \* where the program is
    input,                  \* the arguments of the function under study
    output,                 \* what it returned or raised
    document,               \* the top-level entries iterated so far, in order
    sources,                \* ModelParser._sources
    independent_variables,  \* ModelParser._independent_variables
    links,                  \* ModelParser._links
    error,                  \* the exception that ended the run, if any
    model,                  \* new_model of get_model
    attached                \* the links get_model has attached, in order

vars == <<pc, input, output, document, sources, independent_variables, links, error,
          model, attached>>

parser == <<document, sources, independent_variables, links, error, model, attached>>

NoInput == [source_name |-> NoName]
NoOutput == [ok |-> FALSE, err |-> NoError]

NoParser ==
    /\ document = <<>>
    /\ sources = <<>>
    /\ independent_variables = <<>>
    /\ links = <<>>
    /\ error = NoError
    /\ model = NoModel
    /\ attached = <<>>

\* ------------------------------------------------ ModelParser, get_model
Init ==
    /\ pc = "parsing"
    /\ input = NoInput
    /\ output = NoOutput
    /\ NoParser

DocumentKeys == {document[i].key : i \in 1..Len(document)}

\* _parse: the source and the links of this_parser are collected, unless
\* its construction raised
AppendSource(this_parser) ==
    IF this_parser.ok
    THEN /\ sources' = Append(sources, this_parser.source)
         /\ links' = links \o this_parser.links
         /\ UNCHANGED <<pc, independent_variables, error>>
    ELSE /\ pc' = "failed"
         /\ error' = this_parser.err
         /\ UNCHANGED <<sources, independent_variables, links>>

\* one iteration of the loop of ModelParser._parse
ParseEntry ==
    /\ pc = "parsing"
    /\ Len(document) < MaxEntries
    /\ \E e \in DocumentEntries :
        /\ e.key \notin DocumentKeys
        /\ document' = Append(document, e)
        /\ IF Find(e.key, IndependentVariableTag) > 0
           THEN /\ independent_variables' =
                       Append(independent_variables, IndependentVariable(VarNameOf(e.key)))
                /\ UNCHANGED <<pc, sources, links, error>>
           ELSE AppendSource(SourceParser(e.key, e.definition))
    /\ UNCHANGED <<input, output, model, attached>>

\* the loop ends: ModelParser.__init__ returns
EndOfDocument ==
    /\ pc = "parsing"
    /\ pc' = "parsed"
    /\ UNCHANGED <<input, output, parser>>

HasDuplicateNames(seq) ==
    \E i, j \in 1..Len(seq) : i < j /\ seq[i].name = seq[j].name

\* get_model: model.Model(*self._sources)
CreateModel ==
    /\ pc = "parsed"
    /\ IF \E i \in 1..Len(sources) : sources[i].kind # "PointSource"
       THEN /\ pc' = "failed"
            /\ error' = PythonError("AttributeError", "not a source")
            /\ UNCHANGED model
       ELSE IF HasDuplicateNames(sources)
       THEN /\ pc' = "failed"
            /\ error' = PythonError("DuplicateNameError", "source")
            /\ UNCHANGED model
       ELSE /\ pc' = "model"
            /\ model' = [kind |-> "Model", children |-> sources]
            /\ UNCHANGED error
    /\ UNCHANGED <<input, output, document, sources, independent_variables, links, attached>>

RegisteredVariables ==
    Cardinality({i \in 1..Len(model.children) : model.children[i].kind = "IndependentVariable"})

\* get_model: one iteration of the loop over self._independent_variables
AddIndependentVariable ==
    /\ pc = "model"
    /\ RegisteredVariables < Len(independent_variables)
    /\ model' = [model EXCEPT !.children =
                    Append(@, independent_variables[RegisteredVariables + 1])]
    /\ UNCHANGED <<pc, input, output, document, sources, independent_variables, links,
                   error, attached>>

\* new_model[path].add_auxiliary_variable(new_model[variable], law)
AttachOf(link) ==
    LET target == ModelGetItem(model, link.parameter_path)
        variable == ModelGetItem(model, link.variable)
    IN  IF target = Nothing \/ variable = Nothing THEN Nothing
        ELSE IF target[1].kind # "Parameter" THEN Nothing
        ELSE Some([parameter_path |-> link.parameter_path, parameter |-> target[1].name,
                   variable |-> NodeName(variable[1]), variable_kind |-> variable[1].kind,
                   law |-> link.law])

\* the loop over self._links running before the independent variables are set up
AttachLinkBeforeVariables ==
    /\ pc = "model"
    /\ Len(attached) < Len(links)
    /\ LET this == AttachOf(links[Len(attached) + 1]) IN
       IF this = Nothing
       THEN /\ pc' = "failed"
            /\ error' = PythonError("KeyError", "path not in the model")
            /\ UNCHANGED attached
       ELSE /\ attached' = Append(attached, this[1])
            /\ UNCHANGED <<pc, error>>
    /\ UNCHANGED <<input, output, document, sources, independent_variables, links, model>>

\* get_model: one iteration of the loop over self._links
AttachLink ==
    /\ pc = "model"
    /\ RegisteredVariables = Len(independent_variables)
    /\ Len(attached) < Len(links)
    /\ LET this == AttachOf(links[Len(attached) + 1]) IN
       IF this = Nothing
       THEN /\ pc' = "failed"
            /\ error' = PythonError("KeyError", "path not in the model")
            /\ UNCHANGED attached
       ELSE /\ attached' = Append(attached, this[1])
            /\ UNCHANGED <<pc, error>>
    /\ UNCHANGED <<input, output, document, sources, independent_variables, links, model>>

\* get_model: return new_model
ReturnModel ==
    /\ pc = "model"
    /\ RegisteredVariables = Len(independent_variables)
    /\ Len(attached) = Len(links)
    /\ pc' = "done"
    /\ UNCHANGED <<input, output, parser>>

Next ==
    \/ ParseEntry
    \/ EndOfDocument
    \/ CreateModel
    \/ AddIndependentVariable
    \/ AttachLink
    \/ ReturnModel

Spec == Init /\ [][Next]_vars

\* ------------------------------------------- shape parsing on its own
InitShape ==
    /\ pc = "shape"
    /\ input \in ShapeInputs
    /\ output = NoOutput
    /\ NoParser

CallParseShapeDefinition ==
    /\ pc = "shape"
    /\ pc' = "returned"
    /\ output' = ParseShapeDefinition(input.source_name, input.component_name,
                                      input.function_name, input.parameters_definition, <<>>)
    /\ UNCHANGED <<input, parser>>

SpecShape == InitShape /\ [][CallParseShapeDefinition]_vars

\* ------------------------------------------- position parsing on its own
SkyInputs == [source_name : {<<"a">>, <<"b">>}, position : PositionSections]

InitSky ==
    /\ pc = "position"
    /\ input \in SkyInputs
    /\ output = NoOutput
    /\ NoParser

CallParseSkyDirection ==
    /\ pc = "position"
    /\ pc' = "returned"
    /\ output' = ParseSkyDirection(input.source_name, input.position)
    /\ UNCHANGED <<input, parser>>

SpecSky == InitSky /\ [][CallParseSkyDirection]_vars

\* ------------------------------------------- PointSource on its own
Numbers == {Nothing, Some([numeric |-> TRUE, value |-> 10]), Some([numeric |-> FALSE, value |-> 0])}

ASkyDirection == SkyDirectionOf("ra", "dec", 10, 20)

AComponent == SpectralComponent("c1", get_function("powerlaw"), Nothing)

PointSourceInputs ==
    [source_name : {<<"a">>}, ra : Numbers, dec : Numbers, l : Numbers, b : Numbers,
     spectral_shape : {Nothing, Some(get_function("powerlaw"))},
     components : {Nothing, Some(<<>>), Some(<<AComponent>>)},
     sky_position : {Nothing, Some(ASkyDirection)}]

InitPointSource ==
    /\ pc = "constructor"
    /\ input \in PointSourceInputs
    /\ output = NoOutput
    /\ NoParser

CallPointSourceInit ==
    /\ pc = "constructor"
    /\ pc' = "returned"
    /\ output' = PointSourceInit(input.source_name, input.ra, input.dec, input.spectral_shape,
                                 input.l, input.b, input.components, input.sky_position)
    /\ UNCHANGED <<input, parser>>

SpecPointSource == InitPointSource /\ [][CallPointSourceInit]_vars

\* ------------------------------- one parameter's definition, key by key
\* writing Parameter.value: refused when both bounds are set and the value
\* is outside them
set_value(p, v) ==
    IF /\ p.min_value # Nothing /\ p.max_value # Nothing
       /\ ~v.isString
       /\ (v.num < p.min_value[1] \/ v.num > p.max_value[1])
    THEN Nothing
    ELSE Some([p EXCEPT !.value = v])

\* the parameter as get_function hands it to the loop: the catalog's default
\* value, with or without default bounds around it
DefaultParameters ==
    {[CatalogDefault("K") EXCEPT !.value = Num(v), !.min_value = b[1], !.max_value = b[2]] :
        v \in {1, 5, 9}, b \in {<<Nothing, Nothing>>, <<Some(0), Some(10)>>}}

\* the user's definitions of the parameter: any of the keys, with these values
KeyedDefinitions ==
    {[keys |-> K1 \cup K2, min |-> lo, max |-> hi, delta |-> 3, fix |-> TRUE, free |-> TRUE,
      unit |-> "keV", value |-> v, law |-> SimpleLaw] :
        K1 \in SUBSET {"min", "max", "value"},
        K2 \in {{}, {"delta", "fix", "free", "unit"}, {"law"}},
        lo \in {2, 6}, hi \in {4, 8},
        v \in {Num(3), Num(7), Str(LinkTo(<<"v">>))}}

InitDefinition ==
    /\ pc = "min"
    /\ input \in [default : DefaultParameters, definition : KeyedDefinitions]
    /\ output = [ok |-> TRUE, err |-> NoError, parameter |-> input.default, applied |-> <<>>]
    /\ NoParser

\* one 'if key in this_definition' statement of the loop body: the key is
\* applied when the definition has it, and the next statement follows
ApplyKey(key, next, updated) ==
    /\ pc = key
    /\ pc' = next
    /\ output' = IF key \in input.definition.keys
                 THEN [output EXCEPT !.parameter = updated, !.applied = Append(@, key)]
                 ELSE output
    /\ UNCHANGED <<input, parser>>

ApplyMin ==
    ApplyKey("min", "max", [output.parameter EXCEPT !.min_value = Some(input.definition.min)])

ApplyMax ==
    ApplyKey("max", "delta", [output.parameter EXCEPT !.max_value = Some(input.definition.max)])

ApplyDelta ==
    ApplyKey("delta", "fix", [output.parameter EXCEPT !.delta = Some(input.definition.delta)])

ApplyFix == ApplyKey("fix", "free", set_fix(output.parameter, input.definition.fix))

ApplyFree == ApplyKey("free", "unit", set_free(output.parameter, input.definition.free))

ApplyUnit == ApplyKey("unit", "value", [output.parameter EXCEPT !.unit = input.definition.unit])

\* the rest of the loop body: 'value' must be there; a link leaves the
\* parameter's value alone, a literal is written to it
ApplyValue ==
    /\ pc = "value"
    /\ pc' = "returned"
    /\ IF LacksValue(input.definition)
       THEN output' = [output EXCEPT !.ok = FALSE,
                          !.err = ModelSyntaxError("lacks value", NoName, "", "",
                                                   output.parameter.name, NoName)]
       ELSE IF LinkMatches(StrOf(input.definition.value)) # <<>>
       THEN IF "law" \in input.definition.keys
            THEN output' = [output EXCEPT !.applied = Append(@, "law")]
            ELSE output' = [output EXCEPT !.ok = FALSE,
                               !.err = ModelSyntaxError("lacks law", NoName, "", "",
                                           output.parameter.name,
                                           LinkMatches(StrOf(input.definition.value))[1])]
       ELSE LET written == set_value(output.parameter, input.definition.value) IN
            IF written = Nothing
            THEN output' = [output EXCEPT !.ok = FALSE,
                               !.err = PythonError("ValueError", "value outside the bounds")]
            ELSE output' = [output EXCEPT !.parameter = written[1],
                               !.applied = Append(@, "value")]
    /\ UNCHANGED <<input, parser>>

NextDefinition ==
    \/ ApplyMin
    \/ ApplyMax
    \/ ApplyDelta
    \/ ApplyFix
    \/ ApplyFree
    \/ ApplyUnit
    \/ ApplyValue

SpecDefinition == InitDefinition /\ [][NextDefinition]_vars

\* =================================================================== claims

\* the entry the loop of _parse handled last
LastEntry == document[Len(document)]

IsVariableEntry(e) == Find(e.key, IndependentVariableTag) > 0

\* the last entry went to a SourceParser
SourceEntryHandled == Len(document) > 0 /\ ~IsVariableEntry(LastEntry)

\* the last entry went to _parse_point_source
PointSourceEntryHandled ==
    SourceEntryHandled /\ FindSourceType(LastEntry.key) = POINT_SOURCE

SourceEntries == {i \in 1..Len(document) : ~IsVariableEntry(document[i])}

\* the SourceParser of the last entry raised
LastEntryFailed == SourceEntryHandled /\ Len(sources) < Cardinality(SourceEntries)

\* the last entry was parsed into a point source, the last of sources
PointSourceParsed == PointSourceEntryHandled /\ ~LastEntryFailed

LastSource == sources[Len(sources)]

\* ---- C3
\* the key without its source-kind tag (the last one the pattern matches)
\* and without the whitespace around what is left
Trim(s) ==
    LET nonws == {i \in 1..Len(s) : s[i] # " "}
    IN  IF nonws = {} THEN <<>> ELSE SubSeq(s, Min(nonws), Max(nonws))

TagStripped(key) ==
    LET at == Max(TypeMatches(key))
        tag == Paren(FindSourceType(key))
    IN  Trim(SubSeq(key, 1, at - 1) \o SubSeq(key, at + Len(tag), Len(key)))

\* C3: a top-level key that is no independent-variable entry and has no
\* recognized source-kind tag fails with the unknown-source-kind
\* ModelSyntaxError; a key with a recognized tag is accepted, and the source is
\* named by the key with the tag stripped.
C3_KindTagDecidesAndIsStripped ==
    SourceEntryHandled =>
        IF FindSourceType(LastEntry.key) = None
        THEN /\ pc = "failed"
             /\ error.type = "ModelSyntaxError"
             /\ error.what = "unknown source type"
        ELSE /\ error.what # "unknown source type"
             /\ PointSourceParsed => LastSource.name = TagStripped(LastEntry.key)

\* ---- C5
HasPolarization(component_definition) ==
    \E k \in 1..Len(component_definition) : component_definition[k].name = "polarization"

DescribedPolarization(component_definition) ==
    LET k == CHOOSE k \in 1..Len(component_definition) :
                 component_definition[k].name = "polarization"
    IN  component_definition[k].polarization

\* C5: every parsed spectral component carries the polarization its definition
\* describes in a polarization sub-section, and the default ('none')
\* polarization when the definition has none.
C5_PolarizationIsParsed ==
    PointSourceParsed =>
        \A k \in 1..Len(LastSource.components) :
            LET definition == LastEntry.definition.spectrum[k].definition
                component == LastSource.components[k]
            IN  /\ component.shape.name = definition[1].name
                /\ component.polarization.description =
                       IF HasPolarization(definition)
                       THEN DescribedPolarization(definition) ELSE "none"

\* ---- C9
\* C9: every source the parser collects for an entry of a recognized kind, and
\* passes to the Model, is a Source that owns a position and at least one
\* spectral component.
C9_SourcesOwnPositionAndComponents ==
    \A i \in 1..Len(sources) :
        /\ sources[i].kind = "PointSource"
        /\ sources[i].sky_position.kind = "SkyDirection"
        /\ Len(sources[i].components) >= 1

\* ---- C10
PositionSpecifications(in) ==
    {x \in {"ra and dec", "l and b", "sky_position"} :
        \/ x = "ra and dec" /\ Given(in.ra) /\ Given(in.dec)
        \/ x = "l and b" /\ Given(in.l) /\ Given(in.b)
        \/ x = "sky_position" /\ Given(in.sky_position)}

WellSpecified(in) ==
    /\ Cardinality(PositionSpecifications(in)) = 1
    /\ Given(in.spectral_shape) # Given(in.components)

\* C10: the construction of a PointSource succeeds only with one and only one
\* position specification and exactly one of spectral_shape and components;
\* every other combination fails with an AssertionError, no child attached.
C10_OneAndOnlyOneSpecification ==
    pc = "returned" =>
        /\ output.ok => WellSpecified(input)
        /\ ~WellSpecified(input) =>
              /\ ~output.ok
              /\ output.err.type = "AssertionError"
              /\ output.source.children = <<>>

\* ---- C4
CompletePair(keys, lon, lat) == lon \in keys /\ lat \in keys

\* the parameter is fixed, holds the given value and is bounded to [lo, hi]
FixedWithin(p, value, lo, hi) ==
    /\ p.kind = "Parameter"
    /\ p.value = Num(value)
    /\ p.min_value = Some(lo)
    /\ p.max_value = Some(hi)
    /\ ~p.free

\* the sky direction holds exactly the pair (lon, lat) of the position section
YieldsPair(sky, position, lon, lat) ==
    /\ DOMAIN sky.coordinates = {lon, lat}
    /\ FixedWithin(sky.coordinates[lon], position.coords[lon].value, 0, 360)
    /\ FixedWithin(sky.coordinates[lat], position.coords[lat].value, -90, 90)

Lacks(section) == section \notin LastEntry.definition.keys

\* the construction of the parser was aborted by this ModelSyntaxError, which
\* names the source of the last entry; no Model exists
AbortedBy(what) ==
    /\ pc = "failed"
    /\ error = ModelSyntaxError(what, SplitFirst(LastEntry.key), "", "", "", NoName)
    /\ LastEntryFailed
    /\ model = NoModel

ValidPosition(position) ==
    \/ CompletePair(DOMAIN position.coords, "ra", "dec")
    \/ CompletePair(DOMAIN position.coords, "l", "b")

\* C2 as stated: a point source definition without 'position' fails with the
\* ModelSyntaxError naming 'position' and the source, one without 'spectrum'
\* with the ModelSyntaxError naming 'spectrum' and the source; either way
\* the construction of the ModelParser is aborted and no Model is returned.
C2_MissingSectionIsNamed ==
    PointSourceEntryHandled =>
        /\ Lacks("position") => AbortedBy("missing position")
        /\ Lacks("spectrum") => AbortedBy("missing spectrum")

\* C2 amended: a definition without 'position' fails with the
\* ModelSyntaxError naming 'position' and the source; one without 'spectrum'
\* fails with the ModelSyntaxError naming 'spectrum' and the source when its
\* position section is present and holds a complete coordinate pair, and with
\* the error of the position (missing, or invalid pair) otherwise; in every
\* case the construction is aborted by a ModelSyntaxError and no Model exists.
C2_MissingSectionAborts ==
    PointSourceEntryHandled =>
        /\ Lacks("position") => AbortedBy("missing position")
        /\ Lacks("spectrum") /\ ~Lacks("position") =>
              IF ValidPosition(LastEntry.definition.position)
              THEN AbortedBy("missing spectrum")
              ELSE AbortedBy("invalid coordinate pair")
        /\ Lacks("position") \/ Lacks("spectrum") =>
              /\ error.type = "ModelSyntaxError"
              /\ pc \notin {"parsed", "model", "done"}

\* a definition with a valid position and no spectrum has been refused
C2_Witness ==
    /\ PointSourceEntryHandled
    /\ Lacks("spectrum")
    /\ ~Lacks("position")
    /\ ValidPosition(LastEntry.definition.position)
    /\ AbortedBy("missing spectrum")

\* ---- C8
ModelSources == {i \in 1..Len(sources) : sources[i].kind = "PointSource"}

\* in the tree of the model, the names in path lead to node
Addresses(path, node) == GetChildFromPath(model, path) = Some(node)

AllRegistered ==
    /\ model.kind = "Model"
    /\ \A i \in 1..Len(sources) :
           \E k \in 1..Len(model.children) : model.children[k] = sources[i]
    /\ \A i \in 1..Len(independent_variables) :
           \E k \in 1..Len(model.children) : model.children[k] = independent_variables[i]

\* the link record asks for a parameter of the shape of a component of a
\* parsed source, as a function of a parsed independent variable
LinksParameterToVariable(link) ==
    /\ \E i \in ModelSources : \E k \in 1..Len(sources[i].components) :
          LET c == sources[i].components[k] IN
          \E p \in DOMAIN c.shape.parameters :
              link.parameter_path = LinkPath(sources[i].name, c.name, c.shape.name, p)
    /\ \E i \in 1..Len(independent_variables) :
          link.variable = independent_variables[i].name

\* the next link record, the one get_model handles next
NextLink == links[Len(attached) + 1]

\* C1: a link is attached only once all parsed sources and all parsed
\* independent variables are registered in the Model; links are attached in
\* the order their records were collected; and a record that links a shape
\* parameter to an independent variable of the document is attached to that
\* variable, wherever in the document the variable is declared.
C1_LinksAttachedLastAndInOrder ==
    [][/\ attached' # attached =>
            /\ AllRegistered
            /\ model' = model
            /\ Len(attached) < Len(links)
            /\ attached' = Append(attached, attached'[Len(attached')])
            /\ attached'[Len(attached')].parameter_path = NextLink.parameter_path
            /\ attached'[Len(attached')].law = NextLink.law
       /\ (pc = "model" /\ AllRegistered /\ Len(attached) < Len(links)
                /\ LinksParameterToVariable(NextLink)) =>
            /\ pc' = "model"
            /\ Len(attached') = Len(attached) + 1
            /\ attached'[Len(attached')].variable_kind = "IndependentVariable"
            /\ attached'[Len(attached')].variable = NextLink.variable
       /\ pc' = "done" => Len(attached') = Len(links)
      ]_vars

\* the model is returned with a parameter of the first entry, a source, linked
\* to the variable v that the second entry declares
C1_Witness ==
    /\ pc = "done"
    /\ Len(document) = 2
    /\ ~IsVariableEntry(document[1])
    /\ IsVariableEntry(document[2])
    /\ Len(attached) = 1
    /\ attached[1].variable = <<"v">>
    /\ attached[1].variable_kind = "IndependentVariable"
    /\ attached[1].parameter_path = LinkPath(<<"a">>, "main", "powerlaw", "K")

\* ---- C6
\* _parse_shape_definition has returned or raised for a known function
ShapeParsed == pc = "returned" /\ input.function_name \in KnownFunctions

\* the i-th parameter the catalog declares for the function
Declared(i) == CatalogParameters(input.function_name)[i]

DeclaredIndices == 1..Len(CatalogParameters(input.function_name))

\* the user's mapping has no entry for the i-th declared parameter
Missing(i) == Declared(i) \notin DOMAIN input.parameters_definition

\* the user's mapping has an entry without 'value' for it
Valueless(i) ==
    /\ ~Missing(i)
    /\ "value" \notin input.parameters_definition[Declared(i)].keys

\* the value is f(<path>): one call, its argument without parentheses
IsCallForm(value) ==
    /\ value.isString
    /\ Len(value.str) >= 4
    /\ value.str[1] = "f" /\ value.str[2] = "(" /\ value.str[Len(value.str)] = ")"
    /\ \A k \in 3..(Len(value.str) - 1) : value.str[k] \notin {"(", ")"}

CallArgument(value) == SubSeq(value.str, 3, Len(value.str) - 1)

RECURSIVE WellDefined(_)
RECURSIVE ShapeIsWellDefined(_, _)

\* a parameter's definition with nothing to complain about: it has a value,
\* which is a number, or f(<path>) together with a well defined law
WellDefined(d) ==
    /\ "value" \in d.keys
    /\ \/ ~d.value.isString
       \/ /\ IsCallForm(d.value)
          /\ "law" \in d.keys
          /\ d.law # <<>>
          /\ ShapeIsWellDefined(d.law[1].name, d.law[1].parameters)

\* a known function with a well defined entry for every declared parameter
ShapeIsWellDefined(function_name, parameters_definition) ==
    /\ function_name \in KnownFunctions
    /\ \A i \in 1..Len(CatalogParameters(function_name)) :
          LET p == CatalogParameters(function_name)[i] IN
          /\ p \in DOMAIN parameters_definition
          /\ WellDefined(parameters_definition[p])

\* every declared parameter before the i-th is well defined
WellDefinedBefore(i) ==
    \A j \in 1..(i - 1) :
        ~Missing(j) /\ WellDefined(input.parameters_definition[Declared(j)])

\* the ModelSyntaxError of the shape under study about its i-th parameter
ShapeError(what, i, detail) ==
    ModelSyntaxError(what, input.source_name, input.component_name, input.function_name,
                     Declared(i), detail)

NoInstance == ~output.ok /\ output.instance = NoFunction

RECURSIVE ExpectedLinks(_, _, _, _)
RECURSIVE ExpectedLinksFrom(_, _, _, _, _)

\* what a link record says: the path of the parameter, the variable, and the
\* law as the name of its function and the values of its parameters
Said(record) ==
    [parameter_path |-> record.parameter_path,
     variable |-> record.variable,
     law |-> record.law.name,
     law_values |-> [p \in DOMAIN record.law.parameters |->
                        record.law.parameters[p].value]]

\* the values of the parameters of a well defined shape after pass 1: the
\* literal where the definition gives one, the catalog's default where it
\* gives f(<path>)
ExpectedValues(function_name, parameters_definition) ==
    [p \in Range(CatalogParameters(function_name)) |->
        IF parameters_definition[p].value.isString
        THEN CatalogDefault(p).value
        ELSE parameters_definition[p].value]

\* the records a well defined shape asks for, from its i-th parameter on:
\* one for each parameter defined as f(<path>), after those of its law
ExpectedLinksFrom(source_name, component_name, function_name, parameters_definition, i) ==
    IF i > Len(CatalogParameters(function_name)) THEN <<>>
    ELSE LET p == CatalogParameters(function_name)[i]
             d == parameters_definition[p]
             here == IF d.value.isString
                     THEN ExpectedLinks(source_name, component_name, d.law[1].name,
                                        d.law[1].parameters)
                          \o <<[parameter_path |-> <<source_name, <<"spectrum">>,
                                                     <<component_name>>, <<function_name>>,
                                                     <<p>>>>,
                                variable |-> CallArgument(d.value),
                                law |-> d.law[1].name,
                                law_values |-> ExpectedValues(d.law[1].name,
                                                              d.law[1].parameters)]>>
                     ELSE <<>>
         IN  here \o ExpectedLinksFrom(source_name, component_name, function_name,
                                       parameters_definition, i + 1)

ExpectedLinks(source_name, component_name, function_name, parameters_definition) ==
    ExpectedLinksFrom(source_name, component_name, function_name, parameters_definition, 1)

\* the records of output.links, with each path split at its dots
SaidLinks ==
    [k \in 1..Len(output.links) |->
        [Said(output.links[k]) EXCEPT
            !.parameter_path = SplitDots(output.links[k].parameter_path)]]

RECURSIVE Refused(_)
RECURSIVE ShapeIsRefused(_, _)

\* a parameter's definition the loop stops at: it has no value, or its value
\* is f(<path>) without a law, or under a law that is itself refused
Refused(d) ==
    \/ "value" \notin d.keys
    \/ /\ IsCallForm(d.value)
       /\ \/ "law" \notin d.keys
          \/ d.law = <<>>
          \/ ShapeIsRefused(d.law[1].name, d.law[1].parameters)

ShapeIsRefused(function_name, parameters_definition) ==
    \/ function_name \notin KnownFunctions
    \/ \E i \in 1..Len(CatalogParameters(function_name)) :
          LET p == CatalogParameters(function_name)[i] IN
          \/ p \notin DOMAIN parameters_definition
          \/ Refused(parameters_definition[p])

InputIsWellDefined ==
    ShapeIsWellDefined(input.function_name, input.parameters_definition)

KeyOrder == <<"min", "max", "delta", "fix", "free", "unit", "value">>

\* the statements of the loop body that have run: 7 when it is over
StatementsRun ==
    IF pc = "returned" THEN 7 ELSE (CHOOSE i \in 1..7 : KeyOrder[i] = pc) - 1

IsAsked(key) == key \in input.definition.keys

IsKey(key) == key \in Range(KeyOrder)

\* the keys applied so far are the keys of the definition among the
\* statements that have run, in the order min, max, delta, fix, free, unit,
\* value ('value' counting once it is written)
AppliedInOrder ==
    LET run == SubSeq(KeyOrder, 1, StatementsRun)
        written == SelectSeq(output.applied, IsKey)
    IN  \/ written = SelectSeq(run, IsAsked)
        \/ /\ pc = "returned"
           /\ written = SelectSeq(SubSeq(KeyOrder, 1, 6), IsAsked)

\* the definition gives min, max and a number as value, min <= value <= max
UserConsistent ==
    /\ {"min", "max", "value"} \subseteq input.definition.keys
    /\ ~input.definition.value.isString
    /\ input.definition.min <= input.definition.value.num
    /\ input.definition.value.num <= input.definition.max

InBounds(p) ==
    /\ p.min_value # Nothing => p.min_value[1] <= p.value.num
    /\ p.max_value # Nothing => p.value.num <= p.max_value[1]

\* C11 as stated: the keys of a parameter's definition are applied in the
\* order min, max, delta, fix, free, unit, value, and after each of these
\* steps the parameter satisfies min_value <= value <= max_value, for any
\* min <= value <= max of the user and any default of the catalog.
C11_NoTransientOutOfBounds ==
    pc \in Range(KeyOrder) \cup {"returned"} =>
        /\ AppliedInOrder
        /\ UserConsistent => InBounds(output.parameter)

\* ---- C12
RECURSIVE ShapeDeclarations(_, _, _, _)
RECURSIVE SpectrumDeclarations(_, _, _)
RECURSIVE DocumentDeclarations(_)

\* the parameters of a parsed shape definition whose 'value' declares a
\* link, from the i-th declared parameter on, in the order their records are
\* collected: those of a law before the parameter the law belongs to.  depth
\* counts the laws around the parameter, where names the source and component.
ShapeDeclarations(where, shape, i, depth) ==
    IF i > Len(CatalogParameters(shape.name)) THEN <<>>
    ELSE LET p == CatalogParameters(shape.name)[i]
             d == shape.parameters[p]
             here == IF d.value.isString
                     THEN ShapeDeclarations(where, d.law[1], 1, depth + 1)
                          \o <<[source |-> where.source, component |-> where.component,
                                function |-> shape.name, parameter |-> p, depth |-> depth]>>
                     ELSE <<>>
         IN  here \o ShapeDeclarations(where, shape, i + 1, depth)

\* those of the components of a spectrum, from the k-th on
SpectrumDeclarations(source, spectrum, k) ==
    IF k > Len(spectrum) THEN <<>>
    ELSE ShapeDeclarations([source |-> source, component |-> spectrum[k].name],
                           spectrum[k].definition[1], 1, 0)
         \o SpectrumDeclarations(source, spectrum, k + 1)

\* those of the sources of the document, from the i-th entry on; a source is
\* named by its place in self._sources
DocumentDeclarations(i) ==
    IF i > Len(document) THEN <<>>
    ELSE IF IsVariableEntry(document[i]) THEN DocumentDeclarations(i + 1)
    ELSE SpectrumDeclarations(Cardinality({j \in SourceEntries : j <= i}),
                              document[i].definition.spectrum, 1)
         \o DocumentDeclarations(i + 1)

\* the parameter that declared the k-th link: a parameter of the shape of a
\* component, or, inside a law, a parameter of the law, which the record of
\* the parameter the law belongs to holds (the next record one law less deep)
DeclaringParameter(declarations, k) ==
    LET this == declarations[k] IN
    IF this.depth = 0
    THEN LET s == sources[this.source]
             c == CHOOSE c \in Range(s.components) : c.name = this.component
         IN  c.shape.parameters[this.parameter]
    ELSE LET owner == Min({j \in (k + 1)..Len(declarations) :
                              declarations[j].depth = this.depth - 1})
         IN  links[owner].law.parameters[this.parameter]

\* the model is assembled from the sources the parser collected
ModelAssembled == model.kind = "Model"

\* C12: once the tree of the model is assembled, the parameter_path of every
\* link record collected in pass 1, also of a record collected while the law
\* of a linked parameter was parsed, resolves in the tree to the parameter
\* whose 'value' declared the link.
C12_LinkPathsResolveToDeclarers ==
    ModelAssembled =>
        LET declarations == DocumentDeclarations(1) IN
        /\ Len(declarations) = Len(links)
        /\ \A k \in 1..Len(links) :
              ModelGetItem(model, links[k].parameter_path)
                  = Some(DeclaringParameter(declarations, k))

====
